---- MODULE Spec2Model ----
(***************************************************************************)
(* Model of anyrl/algos/mpi.py: MPIOptimizer (allreduce-averaged gradient  *)
(* steps), _VarSync (broadcast of the root's variables) and the mpi_ppo    *)
(* driver loop, run by `size` MPI processes.                               *)
(*                                                                         *)
(* Numbers are integers counting steps of the float64 grid; the values a   *)
(* float32 can hold are the multiples of Ulp32.  The real number 1.0 is    *)
(* Ulp32 steps, so every whole number is a float32 value.                  *)
(***************************************************************************)
EXTENDS Integers, Sequences, FiniteSets, TLC

VARIABLES
    size,         \* MPI.COMM_WORLD.Get_size()
    graph,        \* the TensorFlow graph every process built for its optimizer
    opt,          \* the MPIOptimizer object every process constructed
    init_seed,    \* per rank: what its session initialised the variables from
    data_seed,    \* per rank: what its rollout data is drawn from
    script,       \* the calls the outer loop issues, in order
    pc,           \* per rank: position in the code
    call,         \* per rank: number of calls started so far
    vars,         \* per rank: the session's variable values
    local_vars,   \* per rank: the variables of a plain (unwrapped) optimizer run side by side
    feed_dict,    \* per rank: the caller's feed_dict of the current minimize
    terms,        \* per rank: the terms of the current minimize
    outs,         \* per rank: what sess.run returned in the current minimize
    extra_feed,   \* per rank: extra_feed of the current minimize
    idx,          \* per rank: position of the running for loop
    result,       \* per rank: minimize's result list
    returned,     \* per rank: the tuples minimize returned so far
    trace,        \* per rank: the steps of the current call, in order
    cseq,         \* per rank: number of collectives entered so far
    comm,         \* MPI.COMM_WORLD: the collectives in flight
    root_snap,    \* the root's variables when it last entered sync
    ppo           \* per rank: the locals of mpi_ppo

vars_all == <<size, graph, opt, init_seed, data_seed, script, pc, call, vars,
              local_vars, feed_dict, terms, outs, extra_feed, idx, result, returned,
              trace, cseq, comm, root_snap, ppo>>

(***************************************************************************)
(* Bounds of the model.                                                    *)
(***************************************************************************)
MaxWorkers == 2
MaxCalls == 2
MaxBatches == 2
MaxIter == 2

(***************************************************************************)
(* Floating point.                                                         *)
(***************************************************************************)
Ulp32 == 2

Grid(dtype) == IF dtype = "float32" THEN Ulp32 ELSE 1

\* a / n rounded to the nearest multiple of step, ties to the even multiple
RoundDiv(a, n, step) ==
    LET d == n * step
        k == a \div d
        r == a - k * d
    IN  IF 2 * r < d THEN k * step
        ELSE IF 2 * r > d THEN (k + 1) * step
        ELSE IF k % 2 = 0 THEN k * step ELSE (k + 1) * step

\* np.array(x, dtype=...): the nearest value of the dtype
Cast(dtype, x) == RoundDiv(x, 1, Grid(dtype))

(***************************************************************************)
(* Mappings (feed_dict): sets of <<key, value>> pairs, one pair a key.     *)
(***************************************************************************)
Keys(m) == {p[1] : p \in m}

Lookup(m, k) == (CHOOSE p \in m : p[1] = k)[2]

\* m[k] = v
Bind(m, k, v) == {p \in m : p[1] # k} \cup {<<k, v>>}

(***************************************************************************)
(* The TensorFlow graph a process builds before it wraps its optimizer:    *)
(* the global variables, what compute_gradients returns for the loss, and  *)
(* whether the optimizer keeps a slot variable for each variable it        *)
(* updates.                                                                *)
(***************************************************************************)
DType(v) == IF v \in {"b", "b_m"} THEN "float64" ELSE "float32"

Slot(v) == IF v = "w" THEN "w_m" ELSE IF v = "b" THEN "b_m" ELSE "c_m"

\* two graphs: in the first "c" is left out of var_list, in the second its
\* gradient is None
Graphs ==
    { [old   |-> <<"w", "c">>,
       pairs |-> <<[grad |-> TRUE, var |-> "w"]>>,
       slots |-> FALSE],
      [old   |-> <<"w", "b", "c">>,
       pairs |-> <<[grad |-> TRUE, var |-> "w"], [grad |-> FALSE, var |-> "c"],
                   [grad |-> TRUE, var |-> "b"]>>,
       slots |-> TRUE] }

Range(s) == {s[i] : i \in DOMAIN s}

PhNames == <<"ph1", "ph2", "ph3">>

\* mutant: the pairs without a gradient are kept
ConstructKeepingNone(g) ==
    LET old_variables == g.old
        grads == g.pairs
        placeholders == [i \in 1..Len(grads) |-> PhNames[i]]
        apply_in == [i \in 1..Len(grads) |-> <<placeholders[i], grads[i].var>>]
        created == IF g.slots THEN [i \in 1..Len(apply_in) |-> Slot(apply_in[i][2])]
                   ELSE <<>>
        global_variables == old_variables \o created
        optimizer_vars == SelectSeq(global_variables,
                                    LAMBDA v : v \notin Range(old_variables))
    IN  [grads        |-> grads,
         placeholders |-> placeholders,
         apply        |-> [pairs |-> apply_in, slots |-> g.slots],
         var_sync     |-> [i \in 1..Len(grads) |-> grads[i].var] \o optimizer_vars,
         globals      |-> global_variables]

\* MPIOptimizer.__init__
Construct(g) ==
    LET old_variables == g.old
        grads == SelectSeq(g.pairs, LAMBDA pair : pair.grad)
        placeholders == [i \in 1..Len(grads) |-> PhNames[i]]
        apply_in == [i \in 1..Len(grads) |-> <<placeholders[i], grads[i].var>>]
        created == IF g.slots THEN [i \in 1..Len(apply_in) |-> Slot(apply_in[i][2])]
                   ELSE <<>>
        global_variables == old_variables \o created
        optimizer_vars == SelectSeq(global_variables,
                                    LAMBDA v : v \notin Range(old_variables))
    IN  [grads        |-> grads,
         placeholders |-> placeholders,
         apply        |-> [pairs |-> apply_in, slots |-> g.slots],
         var_sync     |-> [i \in 1..Len(grads) |-> grads[i].var] \o optimizer_vars,
         globals      |-> global_variables]

(***************************************************************************)
(* The session: initial values, the caller's data, sess.run on the loss    *)
(* graph, and the wrapped optimizer's apply step.                          *)
(***************************************************************************)
Ranks == 0..(size - 1)

\* the value a session started from init seed s gives variable v
InitValue(s, v) == Cast(DType(v), s * (5 * Ulp32 + (IF DType(v) = "float64" THEN 1 ELSE 0)))

InitVars(g, s) == [v \in Range(Construct(g).globals) |-> InitValue(s, v)]

DefaultX == 1

\* the input the k-th batch of a process with data seed s holds
Datum(s, k) == 1 + 2 * ((k * (s + 1)) % 2)

\* the feed_dict the outer loop passes to its k-th call: none when the input is the
\* graph's default
CallerFeed(s, k) == IF Datum(s, k) = DefaultX THEN {} ELSE {<<"x", Datum(s, k)>>}

X(feed) == IF "x" \in Keys(feed) THEN Lookup(feed, "x") ELSE DefaultX

\* the local gradient of the loss for variable v, a tensor of v's dtype: x for a
\* float32 variable, (x + 1) / 4 for a float64 one (a half is no float32 value)
GradValue(x, v) ==
    Cast(DType(v), IF DType(v) = "float64" THEN ((x + 1) * Ulp32) \div 4 ELSE x * Ulp32)

\* the scalar term t, a float32 tensor
TermValue(x, t) == Cast("float32", (x + t) * Ulp32)

\* sess.run(terms + [x[0] for x in self.grads], feed_dict=feed)
SessRun(o, tms, feed) ==
    [i \in 1..Len(tms) |-> TermValue(X(feed), tms[i])]
    \o [i \in 1..Len(o.grads) |-> GradValue(X(feed), o.grads[i].var)]

\* the optimizer's apply_gradients step on the (gradient value, variable) pairs:
\* gradient descent with learning rate 1, through an accumulator when the optimizer
\* keeps slots
ApplyStep(apply, vs, gvals) ==
    LET Pos(v) == CHOOSE i \in DOMAIN apply.pairs : apply.pairs[i][2] = v
        IsVar(v) == \E i \in DOMAIN apply.pairs : apply.pairs[i][2] = v
        IsSlot(v) == apply.slots /\ \E i \in DOMAIN apply.pairs : Slot(apply.pairs[i][2]) = v
        Owner(v) == CHOOSE i \in DOMAIN apply.pairs : Slot(apply.pairs[i][2]) = v
    IN  [v \in DOMAIN vs |->
            IF IsVar(v)
            THEN IF apply.slots
                 THEN Cast(DType(v), vs[v] - (vs[Slot(v)] + gvals[Pos(v)]))
                 ELSE Cast(DType(v), vs[v] - gvals[Pos(v)])
            ELSE IF IsSlot(v) THEN Cast(DType(v), vs[v] + gvals[Owner(v)])
            ELSE vs[v]]

(***************************************************************************)
(* MPI.COMM_WORLD.  comm maps the number of a collective in flight to what *)
(* the ranks put in (vals) and which ranks have come back from it (left);  *)
(* a collective every rank has left is forgotten.                          *)
(***************************************************************************)
RECURSIVE SumVals(_)
SumVals(S) == IF S = {} THEN 0
              ELSE LET p == CHOOSE q \in S : TRUE IN p[2] + SumVals(S \ {p})

Enter(c, k, r, v) ==
    IF k \in DOMAIN c THEN [c EXCEPT ![k].vals = @ \cup {<<r, v>>}]
    ELSE (k :> [vals |-> {<<r, v>>}, left |-> {}]) @@ c

Leave(c, k, r) ==
    IF c[k].left \cup {r} = Ranks THEN [j \in DOMAIN c \ {k} |-> c[j]]
    ELSE [c EXCEPT ![k].left = @ \cup {r}]

\* mutant: Allreduce returns with what is in so far
AllreduceReadyOwn(c, k) == k \in DOMAIN c

\* Allreduce returns on a rank once every rank has put its buffer in
AllreduceReady(c, k) == k \in DOMAIN c /\ Cardinality(c[k].vals) = size

\* mutant: the receivers name rank 1 as the root
BcastReadyFromRank1(c, k) == k \in DOMAIN c /\ \E p \in c[k].vals : p[1] = 1

\* bcast returns on a receiver once the root's message is there
BcastReady(c, k) == k \in DOMAIN c /\ \E p \in c[k].vals : p[1] = 0

\* bcast sends the pickled array, which carries its dtype
Pickle(dtype, x) == <<dtype, x>>

Unpickle(p) == p[2]

(***************************************************************************)
(* MPIOptimizer.minimize, one action a step between two blocking calls.    *)
(***************************************************************************)
PpoIdle == [num_iter |-> 0, batches |-> 0, taken |-> 0, batch_idx |-> 0,
            result |-> <<>>, extra_feed_dict |-> {}, log_fn |-> FALSE, log |-> <<>>]

grad_outs(w) == SubSeq(outs[w], Len(terms[w]) + 1, Len(outs[w]))

\* mutant: the terms are sliced off the wrong end of outs
term_outs_from_end(w) == SubSeq(outs[w], Len(outs[w]) - Len(terms[w]) + 1, Len(outs[w]))

\* mutant: a term whose local value is small is not reduced
term_outs_large(w) ==
    SelectSeq(SubSeq(outs[w], 1, Len(terms[w])), LAMBDA t : t > 2 * Ulp32)

term_outs(w) == SubSeq(outs[w], 1, Len(terms[w]))

\* lines 52-61: the defaults, the single sess.run, the copy of feed_dict; the plain
\* optimizer run side by side applies the local gradients as they are
MinimizeEnter(w, fd, tms) ==
    LET feed == IF fd = {} THEN {} ELSE fd
        ts == IF tms = <<>> THEN <<>> ELSE tms
        run == SessRun(opt, ts, feed)
    IN  /\ call' = [call EXCEPT ![w] = @ + 1]
        /\ feed_dict' = [feed_dict EXCEPT ![w] = fd]
        /\ terms' = [terms EXCEPT ![w] = ts]
        /\ outs' = [outs EXCEPT ![w] = run]
        /\ extra_feed' = [extra_feed EXCEPT ![w] = feed]
        /\ idx' = [idx EXCEPT ![w] = 1]
        /\ result' = [result EXCEPT ![w] = <<>>]
        /\ trace' = [trace EXCEPT ![w] = <<<<"run", Len(ts), Len(opt.grads)>>>>]
        /\ local_vars' = [local_vars EXCEPT ![w] =
                             ApplyStep(opt.apply, @, SubSeq(run, Len(ts) + 1, Len(run)))]
        /\ pc' = [pc EXCEPT ![w] = "grad_loop"]

\* the outer loop calls minimize
Minimize(w) ==
    /\ w \in Ranks
    /\ pc[w] \in {"start", "returned"}
    /\ call[w] < Len(script)
    /\ script[call[w] + 1].op = "minimize"
    /\ MinimizeEnter(w, CallerFeed(data_seed[w], call[w] + 1), script[call[w] + 1].terms)
    /\ UNCHANGED <<size, graph, opt, init_seed, data_seed, script, vars, returned, cseq, comm,
                   root_snap, ppo>>

\* mutant: the gradients are walked from the last to the first
GradZipReversed(w) ==
    [i \in 1..(IF Len(grad_outs(w)) < Len(opt.placeholders) THEN Len(grad_outs(w))
               ELSE Len(opt.placeholders)) |->
        <<grad_outs(w)[Len(grad_outs(w)) + 1 - i], opt.placeholders[i]>>]

\* the pairs zip(grad_outs, self.placeholders) walks
GradZip(w) ==
    [i \in 1..(IF Len(grad_outs(w)) < Len(opt.placeholders) THEN Len(grad_outs(w))
               ELSE Len(opt.placeholders)) |-> <<grad_outs(w)[i], opt.placeholders[i]>>]

\* mutant: the send buffer is made a float16 array
SendGradFloat16(x) == RoundDiv(x, 1, 2 * Ulp32)

\* line 64: send_grad = np.array(grad_out, dtype='float32')
SendGrad(x) == Cast("float32", x)

\* lines 62-65: the float32 send buffer goes into Allreduce
GradSend(w) ==
    /\ w \in Ranks
    /\ pc[w] = "grad_loop"
    /\ idx[w] <= Len(GradZip(w))
    /\ LET send_grad == SendGrad(GradZip(w)[idx[w]][1])
       IN  comm' = Enter(comm, cseq[w] + 1, w, send_grad)
    /\ cseq' = [cseq EXCEPT ![w] = @ + 1]
    /\ trace' = [trace EXCEPT ![w] = Append(@, <<"allreduce_grad", idx[w]>>)]
    /\ pc' = [pc EXCEPT ![w] = "grad_wait"]
    /\ UNCHANGED <<size, graph, opt, init_seed, data_seed, script, call, vars, local_vars,
                   feed_dict, terms, outs, extra_feed, idx, result, returned,
                   root_snap, ppo>>

\* mutant: the sum is not divided
MeanGradNoDiv(total, n) == total

\* line 66: mean_grad /= Get_size(), in float32
MeanGrad(total, n) == RoundDiv(total, n, Grid("float32"))

\* mutant: extra_feed is the caller's dict itself, so the binding lands in it
CallerDictAliased(fd, k, v) == Bind(fd, k, v)

\* lines 61, 67: extra_feed is a copy, a dict of its own: extra_feed[k] = v leaves
\* the caller's dict fd as it is
CallerDict(fd, k, v) == fd

\* lines 65-67: Allreduce returns the sum; the mean is bound to the placeholder in
\* extra_feed
GradRecv(w) ==
    /\ w \in Ranks
    /\ pc[w] = "grad_wait"
    /\ AllreduceReady(comm, cseq[w])
    /\ LET mean_grad == MeanGrad(SumVals(comm[cseq[w]].vals), size)
           placeholder == GradZip(w)[idx[w]][2]
       IN  /\ extra_feed' = [extra_feed EXCEPT ![w] = Bind(@, placeholder, mean_grad)]
           /\ feed_dict' = [feed_dict EXCEPT ![w] = CallerDict(@, placeholder, mean_grad)]
    /\ comm' = Leave(comm, cseq[w], w)
    /\ idx' = [idx EXCEPT ![w] = @ + 1]
    /\ pc' = [pc EXCEPT ![w] = "grad_loop"]
    /\ UNCHANGED <<size, graph, opt, init_seed, data_seed, script, call, vars, local_vars,
                   terms, outs, result, returned, trace, cseq, root_snap, ppo>>

\* mutant: the apply step is given the rank's own gradients
FedLocal(w) == grad_outs(w)

\* the values sess.run(self.apply, feed_dict=extra_feed) reads for the placeholders
Fed(w) == [i \in 1..Len(opt.apply.pairs) |-> Lookup(extra_feed[w], opt.apply.pairs[i][1])]

\* lines 68-70: the apply step on the fed placeholders, then result = []
Apply(w) ==
    /\ w \in Ranks
    /\ pc[w] = "grad_loop"
    /\ idx[w] > Len(GradZip(w))
    /\ vars' = [vars EXCEPT ![w] = ApplyStep(opt.apply, @, Fed(w))]
    /\ result' = [result EXCEPT ![w] = <<>>]
    /\ idx' = [idx EXCEPT ![w] = 1]
    /\ trace' = [trace EXCEPT ![w] = Append(@, <<"apply">>)]
    /\ pc' = [pc EXCEPT ![w] = "term_loop"]
    /\ UNCHANGED <<size, graph, opt, init_seed, data_seed, script, call, local_vars, feed_dict,
                   terms, outs, extra_feed, returned, cseq, comm, root_snap, ppo>>

\* lines 71-72: the term goes into allreduce
TermSend(w) ==
    /\ w \in Ranks
    /\ pc[w] = "term_loop"
    /\ idx[w] <= Len(term_outs(w))
    /\ comm' = Enter(comm, cseq[w] + 1, w, term_outs(w)[idx[w]])
    /\ cseq' = [cseq EXCEPT ![w] = @ + 1]
    /\ trace' = [trace EXCEPT ![w] = Append(@, <<"allreduce_term", idx[w]>>)]
    /\ pc' = [pc EXCEPT ![w] = "term_wait"]
    /\ UNCHANGED <<size, graph, opt, init_seed, data_seed, script, call, vars, local_vars,
                   feed_dict, terms, outs, extra_feed, idx, result, returned,
                   root_snap, ppo>>

\* line 73: total / Get_size(), in the term's float32
MeanTerm(total, n) == RoundDiv(total, n, Grid("float32"))

\* lines 72-73: allreduce returns the sum; the mean is appended to result
TermRecv(w) ==
    /\ w \in Ranks
    /\ pc[w] = "term_wait"
    /\ AllreduceReady(comm, cseq[w])
    /\ result' = [result EXCEPT ![w] =
                     Append(@, MeanTerm(SumVals(comm[cseq[w]].vals), size))]
    /\ comm' = Leave(comm, cseq[w], w)
    /\ idx' = [idx EXCEPT ![w] = @ + 1]
    /\ pc' = [pc EXCEPT ![w] = "term_loop"]
    /\ UNCHANGED <<size, graph, opt, init_seed, data_seed, script, call, vars, local_vars,
                   feed_dict, terms, outs, extra_feed, returned, trace, cseq,
                   root_snap, ppo>>

\* line 74: return tuple(result)
Return(w) ==
    /\ w \in Ranks
    /\ pc[w] = "term_loop"
    /\ idx[w] > Len(term_outs(w))
    /\ returned' = [returned EXCEPT ![w] = Append(@, result[w])]
    /\ pc' = [pc EXCEPT ![w] = "returned"]
    /\ UNCHANGED <<size, graph, opt, init_seed, data_seed, script, call, vars, local_vars,
                   feed_dict, terms, outs, extra_feed, idx, result, trace, cseq, comm,
                   root_snap, ppo>>

(***************************************************************************)
(* MPIOptimizer.sync_from_root and _VarSync.sync.                          *)
(***************************************************************************)
\* mutant: the assigns are paired with the variables in reverse
SyncZipCrossed ==
    [k \in 1..Len(opt.var_sync) |->
        [var |-> opt.var_sync[k], assign |-> opt.var_sync[Len(opt.var_sync) + 1 - k]]]

\* mutant: a sync walks the gradient variables only, the optimizer's own dropped
SyncZipGradsOnly ==
    [k \in 1..Len(opt.grads) |-> [var |-> opt.var_sync[k], assign |-> opt.var_sync[k]]]

\* mutant: a sync walks every global variable
SyncZipAllGlobals ==
    [k \in 1..Len(opt.globals) |-> [var |-> opt.globals[k], assign |-> opt.globals[k]]]

\* the triples zip(self._variables, self._placeholders, self._assigns) walks: the
\* k-th assign writes what its placeholder is fed to the k-th variable
SyncZip == [k \in 1..Len(opt.var_sync) |-> [var |-> opt.var_sync[k], assign |-> opt.var_sync[k]]]

\* lines 86, 100-105: rank = Get_rank(), the loop starts
Sync(w) ==
    /\ w \in Ranks
    /\ pc[w] \in {"start", "returned"}
    /\ call[w] < Len(script)
    /\ script[call[w] + 1].op = "sync"
    /\ call' = [call EXCEPT ![w] = @ + 1]
    /\ idx' = [idx EXCEPT ![w] = 1]
    /\ trace' = [trace EXCEPT ![w] = <<>>]
    /\ root_snap' = IF w = 0 THEN vars[0] ELSE root_snap
    /\ pc' = [pc EXCEPT ![w] = "sync_loop"]
    /\ UNCHANGED <<size, graph, opt, init_seed, data_seed, script, vars, local_vars, feed_dict,
                   terms, outs, extra_feed, result, returned, cseq, comm, ppo>>

\* lines 106-107 on the root: bcast(sess.run(var)); the root does not wait for the
\* receivers
SyncBcast(w) ==
    /\ w \in Ranks
    /\ pc[w] = "sync_loop"
    /\ w = 0
    /\ idx[w] <= Len(SyncZip)
    /\ LET var == SyncZip[idx[w]].var
       IN  comm' = Leave(Enter(comm, cseq[w] + 1, w, Pickle(DType(var), vars[w][var])),
                         cseq[w] + 1, w)
    /\ cseq' = [cseq EXCEPT ![w] = @ + 1]
    /\ trace' = [trace EXCEPT ![w] = Append(@, <<"bcast", idx[w]>>)]
    /\ idx' = [idx EXCEPT ![w] = @ + 1]
    /\ UNCHANGED <<size, graph, opt, init_seed, data_seed, script, pc, call, vars, local_vars,
                   feed_dict, terms, outs, extra_feed, result, returned, root_snap, ppo>>

\* lines 108-109 on another rank: bcast(None) returns the root's array, which the
\* assign op writes through the placeholder of the variable's dtype
SyncAssign(w) ==
    /\ w \in Ranks
    /\ pc[w] = "sync_loop"
    /\ w # 0
    /\ idx[w] <= Len(SyncZip)
    /\ BcastReady(comm, cseq[w] + 1)
    /\ LET msg == Lookup(comm[cseq[w] + 1].vals, 0)
           target == SyncZip[idx[w]].assign
       IN  vars' = [vars EXCEPT ![w][target] = Cast(DType(target), Unpickle(msg))]
    /\ comm' = Leave(comm, cseq[w] + 1, w)
    /\ cseq' = [cseq EXCEPT ![w] = @ + 1]
    /\ trace' = [trace EXCEPT ![w] = Append(@, <<"bcast", idx[w]>>)]
    /\ idx' = [idx EXCEPT ![w] = @ + 1]
    /\ UNCHANGED <<size, graph, opt, init_seed, data_seed, script, pc, call, local_vars,
                   feed_dict, terms, outs, extra_feed, result, returned, root_snap, ppo>>

\* the loop is over: sync returns
SyncReturn(w) ==
    /\ w \in Ranks
    /\ pc[w] = "sync_loop"
    /\ idx[w] > Len(SyncZip)
    /\ pc' = [pc EXCEPT ![w] = "returned"]
    /\ UNCHANGED <<size, graph, opt, init_seed, data_seed, script, call, vars, local_vars,
                   feed_dict, terms, outs, extra_feed, idx, result, returned, trace,
                   cseq, comm, root_snap, ppo>>

(***************************************************************************)
(* The outer loop: every rank issues the calls of `script` in order.       *)
(***************************************************************************)
Calls == { [op |-> "minimize", terms |-> <<>>],
           [op |-> "minimize", terms |-> <<2, 1>>],
           [op |-> "sync", terms |-> <<>>] }

Scripts == [1..MaxCalls -> Calls]

InitState(n, g, is, ds, sc) ==
    /\ size = n
    /\ graph = g
    /\ opt = Construct(g)
    /\ init_seed = is
    /\ data_seed = ds
    /\ script = sc
    /\ pc = [w \in 0..(n - 1) |-> "start"]
    /\ call = [w \in 0..(n - 1) |-> 0]
    /\ vars = [w \in 0..(n - 1) |-> InitVars(g, is[w])]
    /\ local_vars = [w \in 0..(n - 1) |-> InitVars(g, is[w])]
    /\ feed_dict = [w \in 0..(n - 1) |-> {}]
    /\ terms = [w \in 0..(n - 1) |-> <<>>]
    /\ outs = [w \in 0..(n - 1) |-> <<>>]
    /\ extra_feed = [w \in 0..(n - 1) |-> {}]
    /\ idx = [w \in 0..(n - 1) |-> 1]
    /\ result = [w \in 0..(n - 1) |-> <<>>]
    /\ returned = [w \in 0..(n - 1) |-> <<>>]
    /\ trace = [w \in 0..(n - 1) |-> <<>>]
    /\ cseq = [w \in 0..(n - 1) |-> 0]
    /\ comm = <<>>
    /\ root_snap = InitVars(g, is[0])

\* the seeds of n processes: all alike, the root's apart, or alternating by rank
Seeds(n) == { [w \in 0..(n - 1) |-> 0],
             [w \in 0..(n - 1) |-> IF w = 0 THEN 1 ELSE 0],
             [w \in 0..(n - 1) |-> w % 2] }

Init ==
    \E n \in 1..MaxWorkers, g \in Graphs, sc \in Scripts :
        \E is \in Seeds(n), ds \in Seeds(n) :
            /\ InitState(n, g, is, ds, sc)
            /\ ppo = [w \in 0..(n - 1) |-> PpoIdle]

Next ==
    \E w \in 0..(MaxWorkers - 1) :
        \/ Minimize(w)
        \/ GradSend(w)
        \/ GradRecv(w)
        \/ Apply(w)
        \/ TermSend(w)
        \/ TermRecv(w)
        \/ Return(w)
        \/ Sync(w)
        \/ SyncBcast(w)
        \/ SyncAssign(w)
        \/ SyncReturn(w)

Spec == Init /\ [][Next]_vars_all

\* a process that can take a step takes one: every rank is a running OS process
RankStep(w) ==
    \/ Minimize(w) \/ GradSend(w) \/ GradRecv(w) \/ Apply(w) \/ TermSend(w)
    \/ TermRecv(w) \/ Return(w) \/ Sync(w) \/ SyncBcast(w) \/ SyncAssign(w)
    \/ SyncReturn(w)

\* no step is guarded by a value, so for progress one choice of seeds stands for all
InitFair ==
    \E n \in 1..MaxWorkers, g \in Graphs, sc \in Scripts :
        /\ InitState(n, g, [w \in 0..(n - 1) |-> w % 2], [w \in 0..(n - 1) |-> w % 2], sc)
        /\ ppo = [w \in 0..(n - 1) |-> PpoIdle]

SpecFair ==
    /\ InitFair
    /\ [][Next]_vars_all
    /\ \A w \in 0..(MaxWorkers - 1) : WF_vars_all(RankStep(w))

(***************************************************************************)
(* mpi_ppo: the loop over the batches, one minimize call a batch.          *)
(* ppo[w].batches is the number of batches the source of rank w yields and *)
(* ppo[w].taken how many of them the for loop has taken.                   *)
(***************************************************************************)
\* the four terms of line 139-140: actor_loss, explained_var, entropy, num_clipped
PpoTerms == <<1, 2, 3, 4>>

\* lines 132-136: ppo.feed_dict(...) for the batch, then update(extra_feed_dict)
PpoFeed(w) ==
    LET base == {<<"x", Datum(data_seed[w], ppo[w].taken + 1)>>}
        extra == ppo[w].extra_feed_dict
    IN  IF extra # {} THEN {p \in base : p[1] \notin Keys(extra)} \cup extra ELSE base

\* lines 126-130: batch_idx = 0, the batch source, result = []
PpoEnter(w) ==
    /\ w \in Ranks
    /\ pc[w] = "start"
    /\ ppo' = [ppo EXCEPT ![w].batch_idx = 0, ![w].taken = 0, ![w].result = <<>>]
    /\ pc' = [pc EXCEPT ![w] = "ppo_loop"]
    /\ UNCHANGED <<size, graph, opt, init_seed, data_seed, script, call, vars, local_vars,
                   feed_dict, terms, outs, extra_feed, idx, result, returned, trace,
                   cseq, comm, root_snap>>

\* lines 131-140: the loop takes the next batch and calls minimize on it
PpoBatch(w) ==
    /\ w \in Ranks
    /\ pc[w] = "ppo_loop"
    /\ ppo[w].taken < ppo[w].batches
    /\ MinimizeEnter(w, PpoFeed(w), PpoTerms)
    /\ ppo' = [ppo EXCEPT ![w].taken = @ + 1]
    /\ UNCHANGED <<size, graph, opt, init_seed, data_seed, script, vars, returned, cseq, comm,
                   root_snap>>

\* lines 131, 148: the batch source is exhausted, mpi_ppo returns result
PpoExhausted(w) ==
    /\ w \in Ranks
    /\ pc[w] = "ppo_loop"
    /\ ppo[w].taken >= ppo[w].batches
    /\ pc' = [pc EXCEPT ![w] = "ppo_done"]
    /\ UNCHANGED <<size, graph, opt, init_seed, data_seed, script, call, vars, local_vars,
                   feed_dict, terms, outs, extra_feed, idx, result, returned, trace,
                   cseq, comm, root_snap, ppo>>

\* mutant: the tuple is put at the front of the list
PrependResult(res, tup) == <<tup>> \o res

\* line 144: result.append(terms)
AppendResult(res, tup) == Append(res, tup)

\* line 146: if batch_idx == num_iter: break
Break(batch_idx, num_iter) == batch_idx = num_iter

\* mutant: the rank is not tested before logging
LogsOnAnyRank(w, log_fn) == log_fn

\* line 141: if log_fn and MPI.COMM_WORLD.Get_rank() == 0
Logs(w, log_fn) == log_fn /\ w = 0

\* lines 142-143: the arguments of the format string; %d cuts the clipped count to
\* a whole number
LogLine(batch_idx, tup) ==
    [batch |-> batch_idx, actor |-> 0 - tup[1], explained |-> tup[2],
     entropy |-> tup[3], clipped |-> tup[4] \div Ulp32]

\* lines 141-148: minimize has returned its tuple: rank 0 logs it when it was given
\* a log_fn, the tuple is appended, batch_idx counts it, and the loop breaks
\* (mpi_ppo returns result) when batch_idx equals num_iter
PpoAfter(w) ==
    /\ w \in Ranks
    /\ pc[w] = "returned"
    /\ LET tup == returned[w][Len(returned[w])]
           batch_idx == ppo[w].batch_idx + 1
       IN  /\ ppo' = [ppo EXCEPT ![w].log = IF Logs(w, ppo[w].log_fn)
                                            THEN Append(@, LogLine(ppo[w].batch_idx, tup))
                                            ELSE @,
                                 ![w].result = AppendResult(@, tup),
                                 ![w].batch_idx = batch_idx]
           /\ pc' = [pc EXCEPT ![w] = IF Break(batch_idx, ppo[w].num_iter)
                                      THEN "ppo_done" ELSE "ppo_loop"]
    /\ UNCHANGED <<size, graph, opt, init_seed, data_seed, script, call, vars, local_vars,
                   feed_dict, terms, outs, extra_feed, idx, result, returned, trace,
                   cseq, comm, root_snap>>

ExtraFeedDicts == { {}, {<<"lr", 1>>} }

\* every rank runs mpi_ppo once, with the same num_iter, extra_feed_dict and log_fn
\* (given or None), on variables initialised alike and a batch source of its own,
\* the ranks' data alike or alternating
InitPPO ==
    \E n \in 1..MaxWorkers, g \in Graphs, num_iter \in 0..MaxIter, ex \in ExtraFeedDicts :
        \E ds \in {s \in Seeds(n) : s[0] = 0}, nb \in [0..(n - 1) -> 0..MaxBatches],
           lf \in BOOLEAN :
            /\ InitState(n, g, [w \in 0..(n - 1) |-> 0], ds, <<>>)
            /\ ppo = [w \in 0..(n - 1) |->
                         [num_iter |-> num_iter, batches |-> nb[w], taken |-> 0,
                          batch_idx |-> 0, result |-> <<>>, extra_feed_dict |-> ex,
                          log_fn |-> lf, log |-> <<>>]]

NextPPO ==
    \E w \in 0..(MaxWorkers - 1) :
        \/ PpoEnter(w)
        \/ PpoBatch(w)
        \/ GradSend(w)
        \/ GradRecv(w)
        \/ Apply(w)
        \/ TermSend(w)
        \/ TermRecv(w)
        \/ Return(w)
        \/ PpoAfter(w)
        \/ PpoExhausted(w)

SpecPPO == InitPPO /\ [][NextPPO]_vars_all

(***************************************************************************)
(* What the claims speak of.                                               *)
(***************************************************************************)
\* the minimize call number k of the script, as seen from rank v: its feed, what its
\* sess.run returns for gradient i and for term j
FeedAt(v, k) == CallerFeed(data_seed[v], k)

LocalGrad(v, k, i) == GradValue(X(FeedAt(v, k)), opt.grads[i].var)

LocalTerm(v, k, j) == TermValue(X(FeedAt(v, k)), script[k].terms[j])

\* f[0] + ... + f[n - 1]
RECURSIVE SumOver(_, _)
SumOver(n, f) == IF n = 0 THEN 0 ELSE f[n - 1] + SumOver(n - 1, f)

\* rank w is in, or has just returned from, a minimize call
InMinimize(w) == call[w] >= 1 /\ script[call[w]].op = "minimize"

NumGrads == Len(opt.grads)

\* C1 (as amended): in a minimize round the value a rank binds to gradient
\* placeholder i, which the apply step reads, is the sum over all ranks of their
\* local gradient i converted to float32, divided by the number of ranks in
\* float32; every rank of the round binds the same value.
C1_MeanOfFloat32Grads ==
    \A w \in Ranks : \A i \in 1..NumGrads :
        (InMinimize(w) /\ opt.placeholders[i] \in Keys(extra_feed[w])) =>
            LET Sent == [v \in Ranks |-> Cast("float32", LocalGrad(v, call[w], i))]
            IN  /\ Lookup(extra_feed[w], opt.placeholders[i])
                      = RoundDiv(SumOver(size, Sent), size, Ulp32)
                /\ \A v \in Ranks :
                      (call[v] = call[w] /\ opt.placeholders[i] \in Keys(extra_feed[v]))
                          => Lookup(extra_feed[v], opt.placeholders[i])
                               = Lookup(extra_feed[w], opt.placeholders[i])

\* C1 as stated: the bound value is the sum of the local gradients themselves
\* divided by the number of ranks (in the gradient's own precision).
C1_MeanOfLocalGrads ==
    \A w \in Ranks : \A i \in 1..NumGrads :
        (InMinimize(w) /\ opt.placeholders[i] \in Keys(extra_feed[w])) =>
            LET Local == [v \in Ranks |-> LocalGrad(v, call[w], i)]
            IN  Lookup(extra_feed[w], opt.placeholders[i])
                    = RoundDiv(SumOver(size, Local), size, Grid(DType(opt.grads[i].var)))

\* two ranks with different local gradients have both bound the average of a
\* float64 gradient and are about to apply it
C1_Witness ==
    /\ size = 2
    /\ NumGrads = 2
    /\ \A w \in Ranks : InMinimize(w) /\ call[w] = 1 /\ pc[w] = "grad_loop"
                        /\ idx[w] > NumGrads
    /\ LocalGrad(0, 1, 2) # LocalGrad(1, 1, 2)
    /\ DType(opt.grads[2].var) = "float64"

SyncSet == Range(opt.var_sync)

SyncEq(a, b) == \A x \in SyncSet : a[x] = b[x]

\* rank w has returned from call number k, a call of kind op
ReturnedFrom(w, k, op) == pc[w] = "returned" /\ call[w] = k /\ script[k].op = op

\* C2: whatever the ranks' variables were, once sync has returned on a rank (so also
\* once it has returned on all of them) every variable of the synchronized set has on
\* that rank the value the root held for it immediately before the sync.
C2_SyncGivesRootValues ==
    \A w \in Ranks : \A k \in 1..Len(script) :
        ReturnedFrom(w, k, "sync") => SyncEq(vars[w], root_snap)

\* the spec's scenario: the root held w = 5.0 and the other rank w = 0.0; sync has
\* returned on both and both hold 5.0
C2_Witness ==
    /\ size = 2
    /\ InitValue(init_seed[0], "w") = 5 * Ulp32
    /\ InitValue(init_seed[1], "w") = 0
    /\ \A w \in Ranks : ReturnedFrom(w, 1, "sync") /\ vars[w]["w"] = 5 * Ulp32

\* rank w holds the variable values call number k left: it is past the update of
\* call k and before the update of call k + 1
Updated(w) ==
    IF script[call[w]].op = "minimize" THEN pc[w] \in {"term_loop", "term_wait", "returned"}
    ELSE pc[w] = "returned"

NotYetUpdated(w) ==
    IF script[call[w]].op = "minimize" THEN pc[w] \in {"grad_loop", "grad_wait"}
    ELSE pc[w] = "sync_loop" /\ (w = 0 \/ idx[w] = 1)

Settled(w, k) ==
    \/ k = 0 /\ call[w] = 0
    \/ k >= 1 /\ call[w] = k /\ Updated(w)
    \/ call[w] = k + 1 /\ NotYetUpdated(w)

\* after call number k the ranks hold identical values by the claim's premise: they
\* started identical or synced, and have only called minimize since
RECURSIVE Aligned(_)
Aligned(k) ==
    IF k = 0 THEN \A v \in Ranks : init_seed[v] = init_seed[0]
    ELSE IF script[k].op = "sync" THEN TRUE
    ELSE Aligned(k - 1)

\* C3: ranks that hold identical values for the gradient-set and optimizer-created
\* variables and call minimize in lockstep hold identical values again after the
\* round, whatever their local gradients; with 2 ranks, w = 0, local gradients 1 and
\* 3 and plain gradient descent at learning rate 1, w is -2 on both after one round.
C3_MinimizeKeepsRanksIdentical ==
    /\ \A k \in 1..Len(script) :
          (script[k].op = "minimize" /\ Aligned(k - 1)) =>
              \A v \in Ranks, w \in Ranks :
                  (Settled(v, k) /\ Settled(w, k)) => SyncEq(vars[v], vars[w])
    /\ ( /\ size = 2 /\ ~opt.apply.slots /\ script[1].op = "minimize"
         /\ \A v \in Ranks : init_seed[v] = 0
         /\ LocalGrad(0, 1, 1) = 1 * Ulp32 /\ LocalGrad(1, 1, 1) = 3 * Ulp32 )
       => \A w \in Ranks : Settled(w, 1) => vars[w]["w"] = (-2) * Ulp32

\* the spec's scenario has run: both ranks are past their first round with w = -2.0
C3_Witness ==
    /\ size = 2 /\ ~opt.apply.slots /\ script[1].op = "minimize"
    /\ \A v \in Ranks : init_seed[v] = 0
    /\ LocalGrad(0, 1, 1) = 1 * Ulp32 /\ LocalGrad(1, 1, 1) = 3 * Ulp32
    /\ \A w \in Ranks : ReturnedFrom(w, 1, "minimize") /\ vars[w]["w"] = (-2) * Ulp32

\* the number of minimize calls among the first k calls of the script
RECURSIVE MinimizeCalls(_)
MinimizeCalls(k) ==
    IF k = 0 THEN 0
    ELSE MinimizeCalls(k - 1) + (IF script[k].op = "minimize" THEN 1 ELSE 0)

Completed(w) == IF pc[w] = "returned" THEN call[w] ELSE IF call[w] = 0 THEN 0 ELSE call[w] - 1

\* C4: ranks calling minimize alike obtain one result tuple per call, K tuples for K
\* calls, and the k-th tuple of one rank equals the k-th tuple of every other rank,
\* though their local term values differ.
C4_SameTuplesOnEveryRank ==
    /\ \A w \in Ranks : Len(returned[w]) = MinimizeCalls(Completed(w))
    /\ \A v \in Ranks, w \in Ranks :
          \A k \in 1..Len(returned[v]) :
              k <= Len(returned[w]) => returned[v][k] = returned[w][k]

\* two ranks have made every call of a script of minimize calls with terms, their
\* local term values differed, and each holds one tuple per call
C4_Witness ==
    /\ size = 2
    /\ \A k \in 1..Len(script) : script[k].op = "minimize" /\ script[k].terms # <<>>
    /\ LocalTerm(0, 1, 1) # LocalTerm(1, 1, 1)
    /\ \A w \in Ranks : pc[w] = "returned" /\ call[w] = Len(script)
                        /\ Len(returned[w]) = MaxCalls

\* the steps of kind what in the trace of the current call
Count(tr, what) == Cardinality({n \in DOMAIN tr : tr[n][1] = what})

\* C5: minimize returns one entry per requested term, in the order requested, entry
\* j being the sum over the ranks of their local value of term j divided by the
\* number of ranks; without terms the tuple is empty and no term reduction is issued.
C5_TupleIsMeanOfTerms ==
    \A w \in Ranks : \A k \in 1..Len(script) :
        ReturnedFrom(w, k, "minimize") =>
            LET tup == returned[w][Len(returned[w])]
                req == script[k].terms
            IN  /\ Len(tup) = Len(req)
                /\ \A j \in 1..Len(req) :
                      tup[j] = RoundDiv(SumOver(size, [v \in Ranks |-> LocalTerm(v, k, j)]),
                                        size, Ulp32)
                /\ Count(trace[w], "allreduce_term") = Len(req)
                /\ req = <<>> => (tup = <<>> /\ Count(trace[w], "allreduce_term") = 0)

\* a rank of two has returned the means of two terms whose local values differed
\* between the ranks and between the terms
C5_Witness ==
    /\ size = 2
    /\ ReturnedFrom(0, 1, "minimize")
    /\ Len(script[1].terms) = 2
    /\ LocalTerm(0, 1, 1) # LocalTerm(1, 1, 1)
    /\ returned[0][1][1] # returned[0][1][2]

\* with one rank: after every call the variables are those of the plain optimizer
\* and the tuple minimize returned holds the local term values
SingleRankIsLocal ==
    \A w \in Ranks :
        (call[w] >= 1 /\ pc[w] = "returned") =>
            /\ vars[w] = local_vars[w]
            /\ script[call[w]].op = "minimize" =>
                  returned[w][Len(returned[w])] = term_outs(w)

\* every local gradient value of the minimize calls rank w has made is a float32 value
GradsFitFloat32(w) ==
    \A k \in 1..call[w] : \A i \in 1..NumGrads :
        script[k].op = "minimize" =>
            Cast("float32", LocalGrad(w, k, i)) = LocalGrad(w, k, i)

\* C6 (as amended): with a single rank and every local gradient value a float32
\* value, minimize leaves the variables as the wrapped optimizer applying the local
\* gradients would, and returns the local term values; the two run side by side
\* stay equal.
C6_SingleRankFloat32IsLocal == (size = 1 /\ GradsFitFloat32(0)) => SingleRankIsLocal

\* C6 as stated: with a single rank, whatever the gradients' precision.
C6_SingleRankIsLocal == size = 1 => SingleRankIsLocal

\* a single rank has made two minimize calls with terms, all its gradient values
\* float32 values
C6_Witness ==
    /\ size = 1 /\ GradsFitFloat32(0)
    /\ pc[0] = "returned" /\ call[0] = 2 /\ Len(returned[0]) = 2
    /\ returned[0][2] # <<>>
    /\ vars[0] # InitVars(CHOOSE g \in Graphs : Construct(g) = opt, init_seed[0])

AllReturned == \A w \in Ranks : pc[w] = "returned" /\ call[w] = Len(script)

\* C7: when every rank issues the same finite sequence of minimize and
\* sync_from_root calls, under fair scheduling of the ranks every call returns on
\* every rank: no rank stays blocked in a collective.
C7_EveryCallReturns == <>AllReturned

\* two ranks have both returned from the last call of a script that holds a minimize
\* with terms and a sync
C7_Witness ==
    /\ size = 2
    /\ AllReturned
    /\ \E k \in 1..Len(script) : script[k].op = "sync"
    /\ \E k \in 1..Len(script) : script[k].op = "minimize" /\ script[k].terms # <<>>

(***************************************************************************)
(* The claims on mpi_ppo, under SpecPPO.                                   *)
(***************************************************************************)
RankStepPPO(w) ==
    \/ PpoEnter(w) \/ PpoBatch(w) \/ GradSend(w) \/ GradRecv(w) \/ Apply(w)
    \/ TermSend(w) \/ TermRecv(w) \/ Return(w) \/ PpoAfter(w) \/ PpoExhausted(w)

\* rank w is inside a minimize call that a rank which has stopped never makes
CallsBeyond(v, w) == pc[v] = "ppo_done" /\ call[w] > call[v]

\* C8: when a rank has stopped after fewer minimize calls than another rank makes
\* (its batch source ran out earlier), the other rank's next minimize call gets no
\* further than its first collective, the first gradient Allreduce, which never
\* returns: the rank can take no step there, and the call has not run the apply
\* step, so its variables are those the last common round left.
C8_ShortRankBlocksTheOthers ==
    \A v \in Ranks, w \in Ranks :
        CallsBeyond(v, w) =>
            /\ call[w] = call[v] + 1
            /\ pc[w] \in {"grad_loop", "grad_wait"}
            /\ idx[w] = 1
            /\ Len(returned[w]) = call[v]
            /\ Count(trace[w], "apply") = 0
            /\ vars[w] = vars[v]
            /\ pc[w] = "grad_wait" => ~ENABLED RankStepPPO(w)

\* rank 0 has returned from mpi_ppo after one of its rounds updated the variables;
\* rank 1 sits in the first Allreduce of its second minimize call
C8_Witness ==
    /\ size = 2
    /\ pc[0] = "ppo_done" /\ call[0] = 1
    /\ call[1] = 2 /\ pc[1] = "grad_wait"
    /\ vars[0] # InitVars(CHOOSE g \in Graphs : Construct(g) = opt, 0)

Min(a, b) == IF a < b THEN a ELSE b

\* C9: for every num_iter >= 0 and every batch source, mpi_ppo calls minimize once a
\* batch and stops at the first of the source running out and the cap: the number
\* of minimize calls never exceeds num_iter and is min(batches, num_iter) when
\* mpi_ppo returns.
C9_CallsAreMinOfBatchesAndCap ==
    \A w \in Ranks :
        /\ call[w] <= ppo[w].num_iter
        /\ call[w] = ppo[w].taken
        /\ pc[w] = "ppo_done" => call[w] = Min(ppo[w].batches, ppo[w].num_iter)

\* C10: the list mpi_ppo returns has one tuple per minimize call made, the k-th
\* being the tuple the k-th call returned, so ranks that ran mpi_ppo in lockstep
\* return equal lists.
C10_ResultListsTheTuples ==
    /\ \A w \in Ranks :
          /\ Len(ppo[w].result) = ppo[w].batch_idx
          /\ \A k \in 1..Len(ppo[w].result) : ppo[w].result[k] = returned[w][k]
          /\ pc[w] = "ppo_done" =>
                (Len(ppo[w].result) = call[w] /\ ppo[w].result = returned[w])
    /\ \A v \in Ranks, w \in Ranks :
          (pc[v] = "ppo_done" /\ pc[w] = "ppo_done") => ppo[v].result = ppo[w].result

\* two ranks whose local terms differed have both returned a list of two different
\* tuples
C10_Witness ==
    /\ size = 2
    /\ \A w \in Ranks : pc[w] = "ppo_done" /\ Len(ppo[w].result) = 2
    /\ ppo[0].result[1] # ppo[0].result[2]
    /\ data_seed[0] # data_seed[1]

(***************************************************************************)
(* The collectives of a call, read off the trace of its steps.             *)
(***************************************************************************)
IsCollective(st) == st[1] \in {"allreduce_grad", "allreduce_term", "bcast"}

\* the collectives among the steps tr, in the order they were issued
Collectives(tr) == SelectSeq(tr, IsCollective)

\* what a minimize call over ng gradients and nt terms issues
MinimizeCollectives(ng, nt) ==
    [i \in 1..ng |-> <<"allreduce_grad", i>>] \o [j \in 1..nt |-> <<"allreduce_term", j>>]

IsPrefix(a, b) == Len(a) <= Len(b) /\ SubSeq(b, 1, Len(a)) = a

\* the minimize calls of rank w whose tuple mpi_ppo has taken back
TuplesTaken(w) == Len(returned[w]) - (IF pc[w] = "returned" THEN 1 ELSE 0)

\* C11: in mpi_ppo a rank other than 0 never calls log_fn, given or not; rank 0
\* given a log_fn calls it once after each minimize call has returned, with batch
\* indices 0, 1, 2, ... in order; and the collectives a rank issues are those of
\* its minimize calls, whose number is set by the batch source and num_iter alone,
\* whether a log_fn is given or not.
C11_OnlyRankZeroLogs ==
    \A w \in Ranks :
        /\ (w # 0 \/ ~ppo[w].log_fn) => ppo[w].log = <<>>
        /\ (w = 0 /\ ppo[w].log_fn) =>
              /\ Len(ppo[w].log) = TuplesTaken(w)
              /\ \A i \in 1..Len(ppo[w].log) :
                    /\ ppo[w].log[i].batch = i - 1
                    /\ ppo[w].log[i].explained = returned[w][i][2]
        /\ call[w] = 0 => cseq[w] = 0
        /\ call[w] >= 1 =>
              /\ IsPrefix(Collectives(trace[w]), MinimizeCollectives(NumGrads, Len(PpoTerms)))
              /\ cseq[w] = (call[w] - 1) * (NumGrads + Len(PpoTerms))
                              + Len(Collectives(trace[w]))
        /\ pc[w] = "ppo_done" =>
              call[w] = (IF ppo[w].num_iter >= 1
                         THEN Min(ppo[w].batches, ppo[w].num_iter) ELSE ppo[w].batches)

\* two ranks given a log_fn have both returned from mpi_ppo after two minimize
\* calls: rank 0 has logged batches 0 and 1, rank 1 nothing
C11_Witness ==
    /\ size = 2
    /\ \A w \in Ranks : ppo[w].log_fn /\ pc[w] = "ppo_done" /\ call[w] = 2
    /\ Len(ppo[0].log) = 2 /\ ppo[0].log[1].batch = 0 /\ ppo[0].log[2].batch = 1
    /\ ppo[1].log = <<>>

\* the steps of a minimize call over ng gradients and nt terms, in order
MinimizeSteps(ng, nt) ==
    <<<<"run", nt, ng>>>> \o [i \in 1..ng |-> <<"allreduce_grad", i>>]
        \o <<<<"apply">>>> \o [j \in 1..nt |-> <<"allreduce_term", j>>]

\* C12: within a minimize call the steps come in this order: one sess.run that
\* evaluates all the terms and all the local gradients, before any collective; one
\* gradient allreduce a gradient, the i-th sending gradient i of the construction
\* order; the apply step, once every gradient allreduce has returned and bound its
\* placeholder; then one term allreduce a term, the j-th sending the j-th term asked
\* for.
C12_StepsOfMinimizeInOrder ==
    \A w \in Ranks :
        InMinimize(w) =>
            LET req == script[call[w]].terms
            IN  /\ IsPrefix(trace[w], MinimizeSteps(NumGrads, Len(req)))
                /\ trace[w][1] = <<"run", Len(req), NumGrads>>
                /\ Len(outs[w]) = Len(req) + NumGrads
                /\ pc[w] = "grad_wait" =>
                      /\ Count(trace[w], "apply") = 0
                      /\ <<w, Cast("float32", LocalGrad(w, call[w], idx[w]))>>
                             \in comm[cseq[w]].vals
                /\ Count(trace[w], "apply") = 1 =>
                      /\ Count(trace[w], "allreduce_grad") = NumGrads
                      /\ pc[w] \notin {"grad_loop", "grad_wait"}
                      /\ \A i \in 1..NumGrads : opt.placeholders[i] \in Keys(extra_feed[w])
                /\ Count(trace[w], "apply") = 0 => Count(trace[w], "allreduce_term") = 0
                /\ pc[w] = "term_wait" =>
                      <<w, LocalTerm(w, call[w], idx[w])>> \in comm[cseq[w]].vals
                /\ pc[w] = "returned" => trace[w] = MinimizeSteps(NumGrads, Len(req))

\* a rank of two has gone through a whole minimize call with two gradients of
\* different local values and two terms
C12_Witness ==
    /\ size = 2
    /\ ReturnedFrom(0, 1, "minimize")
    /\ NumGrads = 2 /\ Len(script[1].terms) = 2
    /\ LocalGrad(0, 1, 1) # LocalGrad(0, 1, 2)
    /\ Len(trace[0]) = 6

(***************************************************************************)
(* The claims on _VarSync.sync.                                            *)
(***************************************************************************)
\* rank w is in, or has just returned from, a sync_from_root call
InSync(w) == call[w] >= 1 /\ script[call[w]].op = "sync"

\* the steps of a sync, in order
SyncSteps == [k \in 1..Len(opt.var_sync) |-> <<"bcast", k>>]

\* the root's k-th bcast is waiting for rank w, which is at variable k
Arrived(w) ==
    /\ w # 0 /\ pc[w] = "sync_loop" /\ idx[w] <= Len(opt.var_sync)
    /\ BcastReady(comm, cseq[w] + 1)

SyncStepsInOrder ==
    \A w \in Ranks :
        InSync(w) =>
            /\ IsPrefix(trace[w], SyncSteps)
            /\ Len(trace[w]) = idx[w] - 1
            /\ pc[w] = "returned" => trace[w] = SyncSteps
            /\ w = 0 => vars[0] = root_snap
            /\ Arrived(w) =>
                  LET var == opt.var_sync[idx[w]]
                  IN  Lookup(comm[cseq[w] + 1].vals, 0) = Pickle(DType(var), root_snap[var])

\* what a step does to the variables of a rank that is in sync
SyncWritesOnlyItsVariable ==
    \A w \in Ranks :
        (InSync(w) /\ pc[w] = "sync_loop") =>
            IF w # 0 /\ idx'[w] = idx[w] + 1
            THEN LET var == opt.var_sync[idx[w]]
                     msg == Lookup(comm[cseq[w] + 1].vals, 0)
                 IN  vars'[w] = [vars[w] EXCEPT ![var] = Unpickle(msg)]
            ELSE vars'[w] = vars[w]

\* C13: in a sync the root issues one bcast a variable of the synchronized list, in
\* the list's order, the k-th carrying the value the root holds for variable k, and
\* the root's variables do not change; another rank issues one receiving bcast a
\* variable in the same order and writes the k-th value received to its k-th
\* variable and to no other.
C13_SyncPairsByPosition == []SyncStepsInOrder /\ [][SyncWritesOnlyItsVariable]_vars_all

\* two ranks that started from different values have both gone through a sync of
\* four variables, and rank 1 now holds values it did not start with
C13_Witness ==
    /\ size = 2
    /\ \A w \in Ranks : ReturnedFrom(w, 1, "sync") /\ Len(trace[w]) = 4
    /\ vars[1]["b"] # InitValue(init_seed[1], "b")
    /\ vars[1]["c"] # vars[0]["c"]

(***************************************************************************)
(* The claims on what MPIOptimizer.__init__ builds.                        *)
(***************************************************************************)
\* the placeholders a minimize call has bound in its copy of the feed
BoundPlaceholders(w) == Keys(extra_feed[w]) \ Keys(feed_dict[w])

\* every call walks the lists as they were built, from the first entry to the last
CallsWalkTheLists ==
    \A w \in Ranks :
        /\ DOMAIN vars[w] = Range(opt.globals)
        /\ (InMinimize(w) /\ pc[w] = "returned") =>
              /\ Count(trace[w], "allreduce_grad") = Len(opt.grads)
              /\ BoundPlaceholders(w) = Range(opt.placeholders)
        /\ (InSync(w) /\ pc[w] = "returned") =>
              /\ Len(trace[w]) = Len(opt.var_sync)
              /\ \A k \in 1..Len(opt.var_sync) :
                    vars[w][opt.var_sync[k]] = root_snap[opt.var_sync[k]]

\* a step leaves the lists and the set of variables alone
ListsUntouched ==
    /\ opt' = opt
    /\ \A w \in Ranks : DOMAIN vars'[w] = DOMAIN vars[w]

\* C14: the gradient list, its placeholders and the synchronized list are those
\* built at construction: no step of a minimize or sync_from_root call adds, drops
\* or reorders an entry, every call walks the whole of them, and the variables keep
\* their names while their values change.
C14_ListsFixedAtConstruction == []CallsWalkTheLists /\ [][ListsUntouched]_vars_all

\* two ranks have changed their variables in a minimize call and then gone through
\* a sync of four variables
C14_Witness ==
    /\ size = 2
    /\ script[1].op = "minimize"
    /\ \A w \in Ranks : ReturnedFrom(w, 2, "sync")
    /\ Len(opt.var_sync) = 4
    /\ vars[0] # InitVars(CHOOSE g \in Graphs : Construct(g) = opt, init_seed[0])

(***************************************************************************)
(* MPIOptimizer.__init__ on its own: one process builds the optimizer on   *)
(* any graph over the variables w, b, c.                                   *)
(***************************************************************************)
\* what compute_gradients may return over the variables o: a pair for each variable
\* of some var_list, in any order, its gradient a tensor or None
PairSeqs(o) ==
    UNION { {p \in [1..n -> [grad : BOOLEAN, var : Range(o)]] :
                \A i \in 1..n, j \in 1..n : i # j => p[i].var # p[j].var} :
            n \in 0..Len(o) }

AllGraphs ==
    UNION { {[old |-> o, pairs |-> p, slots |-> s] : p \in PairSeqs(o), s \in BOOLEAN} :
            o \in {<<"w", "c">>, <<"w", "b", "c">>} }

\* before __init__ has run there is no list
NotBuilt == [grads |-> <<>>, placeholders |-> <<>>,
             apply |-> [pairs |-> <<>>, slots |-> FALSE],
             var_sync |-> <<>>, globals |-> <<>>]

InitConstruct ==
    \E g \in AllGraphs :
        /\ size = 1
        /\ graph = g
        /\ opt = NotBuilt
        /\ init_seed = [w \in {0} |-> 0]
        /\ data_seed = [w \in {0} |-> 0]
        /\ script = <<>>
        /\ pc = [w \in {0} |-> "new"]
        /\ call = [w \in {0} |-> 0]
        /\ vars = [w \in {0} |-> [v \in Range(g.old) |-> InitValue(0, v)]]
        /\ local_vars = [w \in {0} |-> [v \in Range(g.old) |-> InitValue(0, v)]]
        /\ feed_dict = [w \in {0} |-> {}]
        /\ terms = [w \in {0} |-> <<>>]
        /\ outs = [w \in {0} |-> <<>>]
        /\ extra_feed = [w \in {0} |-> {}]
        /\ idx = [w \in {0} |-> 1]
        /\ result = [w \in {0} |-> <<>>]
        /\ returned = [w \in {0} |-> <<>>]
        /\ trace = [w \in {0} |-> <<>>]
        /\ cseq = [w \in {0} |-> 0]
        /\ comm = <<>>
        /\ root_snap = [v \in Range(g.old) |-> InitValue(0, v)]
        /\ ppo = [w \in {0} |-> PpoIdle]

\* lines 17-34, then the session initialises the variables of the graph
BuildOptimizer(w) ==
    /\ w \in Ranks
    /\ pc[w] = "new"
    /\ opt' = Construct(graph)
    /\ vars' = [vars EXCEPT ![w] = InitVars(graph, init_seed[w])]
    /\ local_vars' = [local_vars EXCEPT ![w] = InitVars(graph, init_seed[w])]
    /\ root_snap' = InitVars(graph, init_seed[0])
    /\ pc' = [pc EXCEPT ![w] = "start"]
    /\ UNCHANGED <<size, graph, init_seed, data_seed, script, call, feed_dict, terms,
                   outs, extra_feed, idx, result, returned, trace, cseq, comm, ppo>>

NextConstruct == \E w \in 0..(MaxWorkers - 1) : BuildOptimizer(w)

SpecConstruct == InitConstruct /\ [][NextConstruct]_vars_all

\* the positions of the pairs that carry a gradient
WithGradient(pairs) == {j \in DOMAIN pairs : pairs[j].grad}

\* the position of the i-th pair that carries a gradient
NthWithGradient(pairs, i) ==
    CHOOSE j \in WithGradient(pairs) :
        Cardinality({m \in WithGradient(pairs) : m <= j}) = i

\* the variables the global set holds after construction and did not hold before
NewVariables == Range(opt.globals) \ Range(graph.old)

\* C15: once built, the gradient list holds exactly the pairs whose gradient is not
\* None, in the order compute_gradients returned them; there is one placeholder a
\* pair, which the apply step pairs with the pair's variable; and the synchronized
\* list is the gradient variables in that order, followed by every variable that is
\* in the global set after construction and was not in it before.
C15_ListsBuiltFromGradients ==
    pc[0] # "new" =>
        LET n == Cardinality(WithGradient(graph.pairs))
        IN  /\ Len(opt.grads) = n
            /\ \A i \in 1..n : opt.grads[i] = graph.pairs[NthWithGradient(graph.pairs, i)]
            /\ Len(opt.placeholders) = n
            /\ Cardinality(Range(opt.placeholders)) = n
            /\ Len(opt.apply.pairs) = n
            /\ \A i \in 1..n :
                  opt.apply.pairs[i] = <<opt.placeholders[i], opt.grads[i].var>>
            /\ Len(opt.var_sync) = n + Cardinality(NewVariables)
            /\ \A i \in 1..n : opt.var_sync[i] = opt.grads[i].var
            /\ {opt.var_sync[k] : k \in (n + 1)..Len(opt.var_sync)} = NewVariables

\* the optimizer is built on a graph whose second pair of three has no gradient and
\* whose optimizer made a slot for each of the other two
C15_Witness ==
    /\ pc[0] = "start"
    /\ Len(graph.pairs) = 3 /\ WithGradient(graph.pairs) = {1, 3}
    /\ graph.pairs[1].var = "b" /\ graph.pairs[3].var = "w"
    /\ Len(opt.grads) = 2
    /\ Len(opt.var_sync) = 4

\* the variables that were there before construction and have no entry in the
\* gradient list: their gradient is None, or var_list left them out
Unsynced == {v \in Range(graph.old) : \A i \in 1..Len(opt.grads) : opt.grads[i].var # v}

\* a step of a rank that is in sync leaves its variables outside the lists alone
SyncLeavesUnsyncedAlone ==
    \A w \in Ranks :
        (InSync(w) /\ pc[w] = "sync_loop") =>
            \A v \in Unsynced : vars'[w][v] = vars[w][v]

\* where the root and another rank started such a variable from different values,
\* they hold different values for it when both have returned from a sync
StillApartAfterSync ==
    \A w \in Ranks : \A v \in Unsynced :
        ( /\ InSync(w) /\ pc[w] = "returned"
          /\ InSync(0) /\ pc[0] = "returned"
          /\ InitValue(init_seed[w], v) # InitValue(init_seed[0], v) )
        => vars[w][v] # vars[0][v]

\* C16: a variable that existed before construction and is not in the gradient list
\* (gradient None, or left out of var_list) is written by no step of sync_from_root
\* on any rank; where it differed between the root and another rank before a sync,
\* it differs after it.
C16_SyncSkipsVariablesOutsideTheLists ==
    []StillApartAfterSync /\ [][SyncLeavesUnsyncedAlone]_vars_all

\* on a graph whose var_list left c out, two ranks started apart have both
\* returned from a sync: they agree on w and still differ on c
C16_Witness ==
    /\ size = 2
    /\ Len(graph.pairs) = 1 /\ "c" \in Unsynced
    /\ \A w \in Ranks : ReturnedFrom(w, 1, "sync")
    /\ init_seed[0] # init_seed[1]
    /\ vars[1]["w"] = vars[0]["w"]
    /\ vars[1]["c"] # vars[0]["c"]

(***************************************************************************)
(* The collectives of a run of calls.                                      *)
(***************************************************************************)
\* what call k of the script issues, by its arguments and the lists alone
ExpectedCollectives(k) ==
    IF script[k].op = "minimize"
    THEN MinimizeCollectives(NumGrads, Len(script[k].terms))
    ELSE SyncSteps

\* how many collectives the first k calls of the script issue
RECURSIVE CollectivesThrough(_)
CollectivesThrough(k) ==
    IF k = 0 THEN 0 ELSE CollectivesThrough(k - 1) + Len(ExpectedCollectives(k))

\* C17: the collectives a rank issues are set by the lists built at construction
\* and the arguments of its calls, not by the values it holds: a minimize call
\* issues one gradient allreduce a gradient and then one term allreduce a term, a
\* sync one bcast a synchronized variable, on the root as on any other rank.
C17_CollectivesSetByArguments ==
    \A w \in Ranks :
        /\ call[w] = 0 => cseq[w] = 0
        /\ call[w] >= 1 =>
              /\ IsPrefix(Collectives(trace[w]), ExpectedCollectives(call[w]))
              /\ cseq[w] = CollectivesThrough(call[w] - 1) + Len(Collectives(trace[w]))
              /\ pc[w] = "returned" =>
                    Collectives(trace[w]) = ExpectedCollectives(call[w])

\* two ranks whose variables and local values differed have both gone through a
\* minimize with two gradients and two terms and then a sync of four variables:
\* eight collectives each
C17_Witness ==
    /\ size = 2
    /\ script[1].op = "minimize" /\ Len(script[1].terms) = 2
    /\ \A w \in Ranks : ReturnedFrom(w, 2, "sync") /\ cseq[w] = 8
    /\ init_seed[0] # init_seed[1]
    /\ LocalGrad(0, 1, 1) # LocalGrad(1, 1, 1)
    /\ LocalTerm(0, 1, 1) # LocalTerm(1, 1, 1)

\* C18: minimize does not change the feed_dict its caller passed: throughout the
\* call and after it the caller's mapping holds the bindings it was passed with,
\* none of them a gradient placeholder; the averaged gradients are bound in the
\* copy.
C18_CallerFeedDictKept ==
    \A w \in Ranks :
        InMinimize(w) =>
            /\ feed_dict[w] = FeedAt(w, call[w])
            /\ Keys(feed_dict[w]) \cap Range(opt.placeholders) = {}
            /\ \A p \in feed_dict[w] : p \in extra_feed[w]
            /\ pc[w] = "returned" =>
                  Keys(extra_feed[w]) = Keys(feed_dict[w]) \cup Range(opt.placeholders)

\* a rank of two that passed a feed_dict binding x has returned from a minimize
\* call that bound two gradient placeholders in its copy
C18_Witness ==
    /\ size = 2
    /\ ReturnedFrom(0, 1, "minimize")
    /\ Keys(feed_dict[0]) = {"x"}
    /\ Cardinality(Keys(extra_feed[0])) = 3

====
